---- MODULE Spec2Model ----
(***************************************************************************)
(* A model of AppleNotesExport.py: the content-reconstruction pipeline     *)
(* (decompress, decode the attribute runs, locate attachments, substitute  *)
(* placeholder tokens) and the Markdown-mode export loop of main().        *)
(*                                                                         *)
(* Python strings are sequences of one-character strings.  A Python value  *)
(* that the code only ever tests for truthiness (None or '' alike) is the  *)
(* empty sequence << >>.                                                   *)
(***************************************************************************)
EXTENDS Integers, Sequences, FiniteSets, TLC

\* ---------------------------------------------------------------- bounds
MaxTextLen == 2    \* longest noteText of a decoded note
MaxRuns == 2       \* most attribute runs of a decoded note
MaxRunLen == 2     \* largest run.length
MaxPieces == 2     \* most pieces (tokens, characters) of a text to substitute
MaxDeletes == 1    \* most attachment files that vanish during one substitution
MaxNotes == 2      \* most notes of one export run
MaxFolders == 2    \* folders with a row in the note store
RecursionLimit == 3 \* deepest nesting of calls the interpreter allows

\* ------------------------------------------------------- string helpers
Min(a, b) == IF a < b THEN a ELSE b

\* Python s[a:b] for 0 <= a, on a 0-based half-open range
Slice(s, a, b) == SubSeq(s, a + 1, Min(b, Len(s)))

\* Python s[a:]
From(s, a) == SubSeq(s, a + 1, Len(s))

RECURSIVE Concat(_)
Concat(ss) == IF ss = << >> THEN << >> ELSE Head(ss) \o Concat(Tail(ss))

\* needle in s (Python substring test)
IsSubstr(needle, s) ==
    \E i \in 0..(Len(s) - Len(needle)) : Slice(s, i, i + Len(needle)) = needle

\* str.replace(c, '') for a one-character c
RECURSIVE RemoveChar(_, _)
RemoveChar(s, c) ==
    IF s = << >> THEN << >>
    ELSE (IF Head(s) = c THEN << >> ELSE <<Head(s)>>) \o RemoveChar(Tail(s), c)

\* the reserved object-replacement code point U+FFFC, one code point
FFFC == "U+FFFC"
Whitespace == {" ", "\n", "\t"}

RECURSIVE LStrip(_)
LStrip(s) == IF s # << >> /\ Head(s) \in Whitespace THEN LStrip(Tail(s)) ELSE s
RECURSIVE RStrip(_)
RStrip(s) ==
    IF s # << >> /\ s[Len(s)] \in Whitespace THEN RStrip(SubSeq(s, 1, Len(s) - 1)) ELSE s
\* str.strip()
Strip(s) == RStrip(LStrip(s))

\* -------------------------------------------------- sentinels and tokens
NoDataBlob == <<"[","N","o"," ","d","a","t","a"," ","b","l","o","b","]">>
DecompressionFailed == <<"[","D","e","c","o","m","p","r","e","s","s","i","o","n"," ","f","a","i","l","e","d","]">>
DocNoteNotFound == <<"[","D","o","c","/","N","o","t","e"," ","n","o","t"," ","f","o","u","n","d"," ","i","n"," ","P","r","o","t","o","]">>
ProtoDecodeError == <<"[","P","r","o","t","o"," ","d","e","c","o","d","e"," ","e","r","r","o","r","]">>
TokenPrefix == <<"!","[","A","T","T","A","C","H","M","E","N","T","|">>

\* f"![ATTACHMENT|{id}|{uti}]"
PlaceholderToken(id, uti) == TokenPrefix \o id \o <<"|">> \o uti \o <<"]">>

\* ------------------------------------------------------------ the blobs
(* zlib and protobuf are libraries: a blob is described by what they make  *)
(* of it.  kind: None (no blob), empty (b''), gzip (a gzip-framed stream), *)
(* zlib (a zlib-framed stream), garbage (bytes that are neither), notbytes *)
(* (a value zlib rejects with a TypeError).  payload is what the stream    *)
(* inflates to: size0 (zero bytes), else a message that is malformed, or   *)
(* parses to a NoteStoreProto with or without document.note.               *)
NoPayload ==
    [size0 |-> TRUE, wellformed |-> FALSE, hasNote |-> FALSE,
     noteText |-> << >>, attributeRun |-> << >>]
UTI_jpeg == <<"p","u","b","l","i","c",".","j","p","e","g">>
TextChars == {"a", " ", FFFC}
SeqsUpTo(S, n) == UNION {[1..k -> S] : k \in 0..n}
AttributeRuns ==
    [length : 0..MaxRunLen, hasAttachmentInfo : {FALSE},
     attachmentIdentifier : {<< >>}, typeUti : {<< >>}]
    \cup [length : 0..MaxRunLen, hasAttachmentInfo : {TRUE},
          attachmentIdentifier : {<<"A","1">>}, typeUti : {UTI_jpeg}]
Payloads ==
    {NoPayload}
    \cup {[NoPayload EXCEPT !.size0 = FALSE]}
    \cup {[NoPayload EXCEPT !.size0 = FALSE, !.wellformed = TRUE]}
    \cup [size0 : {FALSE}, wellformed : {TRUE}, hasNote : {TRUE},
          noteText : SeqsUpTo(TextChars, MaxTextLen),
          attributeRun : SeqsUpTo(AttributeRuns, MaxRuns)]
Blobs ==
    [kind : {"None", "empty", "garbage", "notbytes"}, payload : {NoPayload}]
    \cup [kind : {"gzip", "zlib"}, payload : Payloads]

\* zlib.decompress(data, wbits): "ok" with the payload, "zlib.error", or
\* "TypeError".  wbits = 16 + MAX_WBITS accepts only a gzip stream, the
\* default wbits only a zlib stream.
ZlibDecompress(blob, gzipFramed) ==
    IF blob.kind = "notbytes" THEN [raised |-> "TypeError", data |-> NoPayload]
    ELSE IF (gzipFramed /\ blob.kind = "gzip") \/ (~gzipFramed /\ blob.kind = "zlib")
         THEN [raised |-> "no", data |-> blob.payload]
         ELSE [raised |-> "zlib.error", data |-> NoPayload]

\* decompress_gzip_data: returned is FALSE for Python's None
decompress_gzip_data(gzipped_data) ==
    LET first == ZlibDecompress(gzipped_data, TRUE)
        second == ZlibDecompress(gzipped_data, FALSE)
    IN  IF first.raised = "no" THEN [returned |-> TRUE, data |-> first.data]
        ELSE IF first.raised = "zlib.error"
             THEN IF second.raised = "no" THEN [returned |-> TRUE, data |-> second.data]
                  ELSE [returned |-> FALSE, data |-> NoPayload]
             ELSE [returned |-> FALSE, data |-> NoPayload]

\* "not x" of Python for a blob and for the decompressed bytes
BlobFalsy(blob) == blob.kind \in {"None", "empty"}
DecompressedFalsy(d) == ~d.returned \/ d.data.size0

\* one attribute run, lines 217-220: what it appends and where the cursor goes
RunAppended(content, run, pos) ==
    IF run.hasAttachmentInfo
    THEN PlaceholderToken(run.attachmentIdentifier, run.typeUti)
    ELSE Slice(content, pos, pos + run.length)

RunCursor_OnlyTextAdvances(run, pos) == IF run.hasAttachmentInfo THEN pos ELSE pos + run.length
RunCursor(run, pos) == pos + run.length

\* the run loop of decode_note_protobuf, lines 216-220: state (text, pos)
RECURSIVE WalkRuns(_, _, _, _)
WalkRuns(content, runs, text, pos) ==
    IF runs = << >> THEN text
    ELSE WalkRuns(content, Tail(runs),
                  text \o RunAppended(content, Head(runs), pos),
                  RunCursor(Head(runs), pos))

decode_note_protobuf(data_blob) ==
    IF BlobFalsy(data_blob) THEN NoDataBlob
    ELSE LET decompressed == decompress_gzip_data(data_blob)
         IN  IF DecompressedFalsy(decompressed) THEN DecompressionFailed
             ELSE IF ~decompressed.data.wellformed THEN ProtoDecodeError
             ELSE IF decompressed.data.hasNote
                  THEN LET note == decompressed.data
                       IN  IF note.attributeRun # << >>
                           THEN WalkRuns(note.noteText, note.attributeRun, << >>, 0)
                           ELSE note.noteText
                  ELSE DocNoteNotFound

\* one attribute run of the text-only walk, lines 236-238
RunAppendedTextOnly_KeepsAll(content, run, pos) == Slice(content, pos, pos + run.length)
RunAppendedTextOnly(content, run, pos) ==
    IF ~run.hasAttachmentInfo THEN Slice(content, pos, pos + run.length) ELSE << >>

\* the run loop of decode_note_protobuf_text_only, lines 235-238
RECURSIVE WalkRunsTextOnly(_, _, _, _)
WalkRunsTextOnly(content, runs, text, pos) ==
    IF runs = << >> THEN text
    ELSE WalkRunsTextOnly(content, Tail(runs),
                          text \o RunAppendedTextOnly(content, Head(runs), pos),
                          pos + Head(runs).length)

decode_note_protobuf_text_only(data_blob) ==
    IF BlobFalsy(data_blob) THEN NoDataBlob
    ELSE LET decompressed == decompress_gzip_data(data_blob)
         IN  IF DecompressedFalsy(decompressed) THEN DecompressionFailed
             ELSE IF ~decompressed.data.wellformed THEN ProtoDecodeError
             ELSE IF decompressed.data.hasNote
                  THEN LET note == decompressed.data
                           text == IF note.attributeRun # << >>
                                   THEN WalkRunsTextOnly(note.noteText, note.attributeRun, << >>, 0)
                                   ELSE note.noteText
                       IN  Strip(RemoveChar(text, FFFC))
                  ELSE DocNoteNotFound

\* ------------------------------------------------- the attachment store
(* A path is the sequence of its components; pathlib's "/" drops an empty  *)
(* component.  The file system is the set of paths that exist.             *)
NOTES_DATA_PATH == << <<"g","r","o","u","p",".","c","o","m",".","a","p","p","l","e",".","n","o","t","e","s">> >>
NotFound == << >>
JoinPath(base, parts) == base \o SelectSeq(parts, LAMBDA c : c # << >>)

UTI_drawing == <<"c","o","m",".","a","p","p","l","e",".","d","r","a","w","i","n","g">>
UTI_drawing2 == <<"c","o","m",".","a","p","p","l","e",".","d","r","a","w","i","n","g",".","2">>
UTI_paper == <<"c","o","m",".","a","p","p","l","e",".","p","a","p","e","r">>
UTI_scan == <<"c","o","m",".","a","p","p","l","e",".","p","a","p","e","r",".","d","o","c",".","s","c","a","n">>
UTI_gallery == <<"c","o","m",".","a","p","p","l","e",".","n","o","t","e","s",".","g","a","l","l","e","r","y">>
UTI_pdf == <<"c","o","m",".","a","d","o","b","e",".","p","d","f">>
UTI_plaintext == <<"p","u","b","l","i","c",".","p","l","a","i","n","-","t","e","x","t">>

(* The rows of ZICCLOUDSYNCINGOBJECT the code reads.  Integer columns      *)
(* (Z_PK, ZSIZEWIDTH, ZSIZEHEIGHT) are held as their decimal digits, the   *)
(* form in which the code formats them into names; NULL, 0 and '' are the  *)
(* empty sequence, which is how the code tests them.  A query that raises  *)
(* sqlite3.OperationalError gives the code the same values as a query that *)
(* finds no row.                                                           *)
NoAttachmentRow ==
    [Z_PK |-> << >>, ZIDENTIFIER |-> << >>, ZTYPEUTI |-> << >>, ZMEDIA |-> << >>,
     ZFALLBACKIMAGEGENERATION |-> << >>, ZFALLBACKPDFGENERATION |-> << >>,
     ZSIZEWIDTH |-> << >>, ZSIZEHEIGHT |-> << >>]
NoMediaRow ==
    [Z_PK |-> << >>, ZIDENTIFIER |-> << >>, ZFILENAME |-> << >>, ZGENERATION1 |-> << >>]

\* fetchone() of a query by a key column: the row, or the all-NULL row
FetchOne(rows, col, key, none) ==
    IF \E r \in rows : r[col] = key THEN CHOOSE r \in rows : r[col] = key ELSE none

\* get_attachment_and_media_details: <<att_pk, uti, med_pk, med_id, fname, gen>>
get_attachment_and_media_details(db, attach_id) ==
    LET att == FetchOne(db.attachments, "ZIDENTIFIER", attach_id, NoAttachmentRow)
        med == FetchOne(db.media, "Z_PK", att.ZMEDIA, NoMediaRow)
    IN  IF att.ZMEDIA = << >>
        THEN [att_pk |-> att.Z_PK, uti |-> att.ZTYPEUTI, med_pk |-> << >>,
              med_id |-> << >>, fname |-> << >>, gen |-> << >>]
        ELSE [att_pk |-> att.Z_PK, uti |-> att.ZTYPEUTI, med_pk |-> att.ZMEDIA,
              med_id |-> med.ZIDENTIFIER, fname |-> med.ZFILENAME, gen |-> med.ZGENERATION1]

\* line 169: the candidate base directories, in priority order
BasePaths(acc_uuid) ==
    (IF acc_uuid # << >> THEN <<JoinPath(NOTES_DATA_PATH, <<<<"A","c","c","o","u","n","t","s">>, acc_uuid>>)>> ELSE << >>)
    \o <<NOTES_DATA_PATH>>

DrawingUtis == {UTI_drawing, UTI_drawing2, UTI_paper}
DrawingExts == <<<<"j","p","g">>, <<"p","n","g">>>>

\* lines 171-175, standard media
MediaWithGeneration(base, med_id, fname, gen) == JoinPath(base, <<<<"M","e","d","i","a">>, med_id, gen, fname>>)
MediaNoGeneration(base, med_id, fname) == JoinPath(base, <<<<"M","e","d","i","a">>, med_id, fname>>)
\* line 174 assigns p_no_g only when g is non-empty; reading a local that was
\* never assigned raises UnboundLocalError, which leaves the function
Unassigned == << <<"<unassigned>">> >>
UnboundLocalError == << <<"<UnboundLocalError>">> >>
StandardMedia_ReadsUnguarded(fs, base, med_id, fname, gen) ==
    IF med_id # << >> /\ fname # << >>
    THEN LET g == gen
             p == MediaWithGeneration(base, med_id, fname, g)
             p_no_g == IF g # << >> THEN MediaNoGeneration(base, med_id, fname)
                       ELSE Unassigned
         IN  IF p \in fs THEN p
             ELSE IF p_no_g = Unassigned THEN UnboundLocalError
             ELSE IF p_no_g \in fs THEN p_no_g
             ELSE NotFound
    ELSE NotFound
StandardMedia(fs, base, med_id, fname, gen) ==
    IF med_id # << >> /\ fname # << >>
    THEN LET g == gen
             p == MediaWithGeneration(base, med_id, fname, g)
             p_no_g == IF g # << >> THEN MediaNoGeneration(base, med_id, fname)
                       ELSE Unassigned
         IN  IF p \in fs THEN p
             ELSE IF g = << >> THEN NotFound
             ELSE IF p_no_g = Unassigned THEN UnboundLocalError
             ELSE IF p_no_g \in fs THEN p_no_g
             ELSE NotFound
    ELSE NotFound

\* lines 176-184, drawings.  The loop of line 183 only assigns p; the test of
\* line 184 follows the loop and sees the path of the last extension.
FallbackImageGenerated(base, a_uuid, fb_g) ==
    JoinPath(base, <<<<"F","a","l","l","b","a","c","k","I","m","a","g","e","s">>, a_uuid, fb_g, <<"F","a","l","l","b","a","c","k","I","m","a","g","e",".","p","n","g">>>>)
FallbackImageFlat(base, a_uuid, ext) ==
    JoinPath(base, <<<<"F","a","l","l","b","a","c","k","I","m","a","g","e","s">>, a_uuid \o <<".">> \o ext>>)
DrawingFallback(db, fs, base, att_pk, uti) ==
    IF uti \in DrawingUtis
    THEN LET row == FetchOne(db.attachments, "Z_PK", att_pk, NoAttachmentRow)
             a_uuid == row.ZIDENTIFIER
             fb_g == row.ZFALLBACKIMAGEGENERATION
             p == FallbackImageFlat(base, a_uuid, DrawingExts[Len(DrawingExts)])
         IN  IF a_uuid # << >>
             THEN IF fb_g # << >> /\ FallbackImageGenerated(base, a_uuid, fb_g) \in fs
                  THEN FallbackImageGenerated(base, a_uuid, fb_g)
                  ELSE IF p \in fs THEN p ELSE NotFound
             ELSE NotFound
    ELSE NotFound

\* lines 185-190, the scanned-document fallback PDF
FallbackPdf(base, a_uuid, fb_g) ==
    JoinPath(base, <<<<"F","a","l","l","b","a","c","k","P","D","F","s">>, a_uuid, fb_g, <<"F","a","l","l","b","a","c","k","P","D","F",".","p","d","f">>>>)
ScanFallback(db, fs, base, att_pk, uti) ==
    IF uti = UTI_scan
    THEN LET row == FetchOne(db.attachments, "Z_PK", att_pk, NoAttachmentRow)
             a_uuid == row.ZIDENTIFIER
             fb_g == row.ZFALLBACKPDFGENERATION
         IN  IF a_uuid # << >> /\ FallbackPdf(base, a_uuid, fb_g) \in fs
             THEN FallbackPdf(base, a_uuid, fb_g)
             ELSE NotFound
    ELSE NotFound

\* lines 191-196, the gallery preview
GalleryPreviewPath(base, a_uuid, w, h) ==
    JoinPath(base, <<<<"P","r","e","v","i","e","w","s">>, a_uuid \o <<"-","1","-">> \o w \o <<"x">> \o h \o <<"-","0",".","j","p","e","g">>>>)
GalleryPreview(db, fs, base, att_pk, uti) ==
    IF uti = UTI_gallery
    THEN LET row == FetchOne(db.attachments, "Z_PK", att_pk, NoAttachmentRow)
             a_uuid == row.ZIDENTIFIER
             w == row.ZSIZEWIDTH
             h == row.ZSIZEHEIGHT
         IN  IF a_uuid # << >> /\ w # << >> /\ h # << >>
                /\ GalleryPreviewPath(base, a_uuid, w, h) \in fs
             THEN GalleryPreviewPath(base, a_uuid, w, h)
             ELSE NotFound
    ELSE NotFound

\* the first element of a sequence of results that is a path
FirstFound(results) ==
    IF \E i \in 1..Len(results) : results[i] # NotFound
    THEN results[CHOOSE i \in 1..Len(results) :
                    results[i] # NotFound /\ \A j \in 1..(i - 1) : results[j] = NotFound]
    ELSE NotFound

\* one iteration of the loop of line 170: the first strategy that returns
InBase(db, fs, base, att_pk, uti, med_id, fname, gen) ==
    FirstFound(<< StandardMedia(fs, base, med_id, fname, gen),
                  DrawingFallback(db, fs, base, att_pk, uti),
                  ScanFallback(db, fs, base, att_pk, uti),
                  GalleryPreview(db, fs, base, att_pk, uti) >>)

\* the loop of line 170: the first base that returns; line 197 otherwise
OverBases(db, fs, paths, att_pk, uti, med_id, fname, gen) ==
    FirstFound([b \in 1..Len(paths) |->
                   InBase(db, fs, paths[b], att_pk, uti, med_id, fname, gen)])

find_attachment_source_path(db, fs, att_pk, uti, med_id, fname, gen, acc_uuid) ==
    OverBases(db, fs, BasePaths(acc_uuid), att_pk, uti, med_id, fname, gen)

\* the paths one base can hold for an attachment, in the order the code
\* builds them: standard media, drawing, scan, gallery
CandidatesInBase(db, base, att_pk, uti, med_id, fname, gen) ==
    LET row == FetchOne(db.attachments, "Z_PK", att_pk, NoAttachmentRow)
        a_uuid == row.ZIDENTIFIER
    IN  (IF med_id # << >> /\ fname # << >>
         THEN <<MediaWithGeneration(base, med_id, fname, gen)>>
              \o (IF gen # << >> THEN <<MediaNoGeneration(base, med_id, fname)>> ELSE << >>)
         ELSE << >>)
        \o (IF uti \in DrawingUtis /\ a_uuid # << >>
            THEN (IF row.ZFALLBACKIMAGEGENERATION # << >>
                  THEN <<FallbackImageGenerated(base, a_uuid, row.ZFALLBACKIMAGEGENERATION)>>
                  ELSE << >>)
                 \o [i \in 1..Len(DrawingExts) |-> FallbackImageFlat(base, a_uuid, DrawingExts[i])]
            ELSE << >>)
        \o (IF uti = UTI_scan /\ a_uuid # << >>
            THEN <<FallbackPdf(base, a_uuid, row.ZFALLBACKPDFGENERATION)>>
            ELSE << >>)
        \o (IF uti = UTI_gallery /\ a_uuid # << >> /\ row.ZSIZEWIDTH # << >> /\ row.ZSIZEHEIGHT # << >>
            THEN <<GalleryPreviewPath(base, a_uuid, row.ZSIZEWIDTH, row.ZSIZEHEIGHT)>>
            ELSE << >>)

\* ------------------------------------------- the worlds the checks run in
AccountUuid == <<"U">>
AttachmentRow(pk, id, uti, media, imgGen, pdfGen, w, h) ==
    [Z_PK |-> pk, ZIDENTIFIER |-> id, ZTYPEUTI |-> uti, ZMEDIA |-> media,
     ZFALLBACKIMAGEGENERATION |-> imgGen, ZFALLBACKPDFGENERATION |-> pdfGen,
     ZSIZEWIDTH |-> w, ZSIZEHEIGHT |-> h]
MediaRow(pk, id, fname, gen) ==
    [Z_PK |-> pk, ZIDENTIFIER |-> id, ZFILENAME |-> fname, ZGENERATION1 |-> gen]
Database(atts, meds) == [attachments |-> atts, media |-> meds]

\* one attachment each: every strategy, with and without a generation
LocateDatabases ==
    { Database({AttachmentRow(<<"1">>, <<"A","1">>, UTI_jpeg, <<"8">>, << >>, << >>, << >>, << >>)},
               {MediaRow(<<"8">>, <<"M","1">>, <<"f",".","j","p","g">>, <<"7">>)}),
      Database({AttachmentRow(<<"1">>, <<"A","1">>, UTI_jpeg, <<"8">>, << >>, << >>, << >>, << >>)},
               {MediaRow(<<"8">>, <<"M","1">>, <<"f",".","j","p","g">>, << >>)}),
      Database({AttachmentRow(<<"1">>, <<"A","1">>, UTI_jpeg, <<"8">>, << >>, << >>, << >>, << >>)},
               {MediaRow(<<"8">>, <<"M","1">>, << >>, <<"7">>)}),
      Database({AttachmentRow(<<"1">>, <<"A","1">>, << >>, << >>, <<"g">>, << >>, << >>, << >>)}, {}),
      Database({AttachmentRow(<<"1">>, <<"A","1">>, UTI_drawing, << >>, <<"g">>, << >>, << >>, << >>)}, {}),
      Database({AttachmentRow(<<"1">>, <<"A","1">>, UTI_paper, << >>, << >>, << >>, << >>, << >>)}, {}),
      Database({AttachmentRow(<<"1">>, <<"A","1">>, UTI_drawing2, <<"8">>, <<"g">>, << >>, << >>, << >>)},
               {MediaRow(<<"8">>, <<"M","1">>, <<"f",".","p","n","g">>, <<"7">>)}),
      Database({AttachmentRow(<<"1">>, <<"A","1">>, UTI_scan, << >>, << >>, <<"g">>, << >>, << >>)}, {}),
      Database({AttachmentRow(<<"1">>, <<"A","1">>, UTI_scan, << >>, << >>, << >>, << >>, << >>)}, {}),
      Database({AttachmentRow(<<"1">>, <<"A","1">>, UTI_gallery, << >>, << >>, << >>, <<"4">>, <<"3">>)}, {}),
      Database({AttachmentRow(<<"1">>, <<"A","1">>, UTI_gallery, << >>, << >>, << >>, << >>, <<"3">>)}, {}) }
LocateDeclaredUtis == {UTI_jpeg, UTI_drawing}

\* line 266
EffectiveUti(uti_db, uti_ph) == IF uti_db # << >> THEN uti_db ELSE uti_ph

Range(s) == {s[i] : i \in 1..Len(s)}

\* every path the code can build for the attachment, under both bases
LocateUniverse(db, att, declared) ==
    LET d == get_attachment_and_media_details(db, att)
        u == EffectiveUti(d.uti, declared)
    IN  UNION { Range(CandidatesInBase(db, BasePaths(AccountUuid)[b], d.att_pk, u,
                                       d.med_id, d.fname, d.gen)) : b \in 1..2 }

\* ------------------------------------------ names, extensions, markup
ATTACHMENTS_SUBDIR == <<"_","a","t","t","a","c","h","m","e","n","t","s">>
SanitizeMaxLen == 150

LowerCase == <<"a","b","c","d","e","f","g","h","i","j","k","l","m",
               "n","o","p","q","r","s","t","u","v","w","x","y","z">>
UpperCase == <<"A","B","C","D","E","F","G","H","I","J","K","L","M",
               "N","O","P","Q","R","S","T","U","V","W","X","Y","Z">>
Digits == {"0","1","2","3","4","5","6","7","8","9"}
\* str.isalnum() of one character
IsAlnum(c) == c \in Range(LowerCase) \cup Range(UpperCase) \cup Digits
\* str.lower()
LowerChar(c) ==
    IF c \in Range(UpperCase)
    THEN LowerCase[CHOOSE i \in 1..26 : UpperCase[i] = c]
    ELSE c
Lower(s) == [i \in 1..Len(s) |-> LowerChar(s[i])]

\* "_".join(s.split()): runs of white space become one "_", none at the ends
RECURSIVE JoinRuns(_)
JoinRuns(s) ==
    IF s = << >> THEN << >>
    ELSE IF Head(s) \in Whitespace
         THEN IF Len(s) > 1 /\ s[2] \in Whitespace THEN JoinRuns(Tail(s))
              ELSE <<"_">> \o JoinRuns(Tail(s))
         ELSE <<Head(s)>> \o JoinRuns(Tail(s))
SplitJoin(s) == JoinRuns(Strip(s))

\* sanitize_filename(name), allow_slashes = False
Untitled == <<"U","n","t","i","t","l","e","d">>
Or(a, b) == IF a # << >> THEN a ELSE b
sanitize_filename(name) ==
    LET allowed == {" ", "_", "-"}
        sanitized == SelectSeq(name, LAMBDA c : IsAlnum(c) \/ c \in allowed)
    IN  Or(Strip(Slice(SplitJoin(sanitized), 0, SanitizeMaxLen)), Untitled)

\* the last index (1-based) of character c in s, 0 when there is none
LastIndexOf(s, c) ==
    IF \E i \in 1..Len(s) : s[i] = c
    THEN CHOOSE i \in 1..Len(s) : s[i] = c /\ \A j \in (i + 1)..Len(s) : s[j] # c
    ELSE 0
\* Path(x).name for a file name given as text
PathName(x) == From(x, LastIndexOf(x, "/"))
\* Path(x).suffix and Path(x).stem: the last dot counts unless it is the
\* first or the last character of the name
HasSuffix(name) == LastIndexOf(name, ".") > 1 /\ LastIndexOf(name, ".") < Len(name)
PathSuffix(x) ==
    LET name == PathName(x)
    IN  IF HasSuffix(name) THEN From(name, LastIndexOf(name, ".") - 1) ELSE << >>
PathStem(x) ==
    LET name == PathName(x)
    IN  IF HasSuffix(name) THEN Slice(name, 0, LastIndexOf(name, ".") - 1) ELSE name

UTI_EXTENSIONS ==
    << <<<<"p","u","b","l","i","c",".","j","p","e","g">>, <<".","j","p","g">>>>, <<<<"p","u","b","l","i","c",".","p","n","g">>, <<".","p","n","g">>>>, <<<<"p","u","b","l","i","c",".","g","i","f">>, <<".","g","i","f">>>>,
       <<<<"p","u","b","l","i","c",".","t","i","f","f">>, <<".","t","i","f","f">>>>, <<<<"c","o","m",".","a","d","o","b","e",".","p","d","f">>, <<".","p","d","f">>>>,
       <<<<"p","u","b","l","i","c",".","p","l","a","i","n","-","t","e","x","t">>, <<".","t","x","t">>>>, <<<<"p","u","b","l","i","c",".","r","t","f">>, <<".","r","t","f">>>>,
       <<<<"p","u","b","l","i","c",".","u","r","l">>, <<".","u","r","l">>>>, <<<<"p","u","b","l","i","c",".","v","c","a","r","d">>, <<".","v","c","f">>>>,
       <<<<"c","o","m",".","a","p","p","l","e",".","k","e","y","n","o","t","e",".","k","e","y">>, <<".","k","e","y">>>>, <<<<"c","o","m",".","a","p","p","l","e",".","k","e","y","n","o","t","e",".","k","t","h">>, <<".","k","t","h">>>>,
       <<<<"c","o","m",".","a","p","p","l","e",".","n","u","m","b","e","r","s",".","n","u","m","b","e","r","s">>, <<".","n","u","m","b","e","r","s">>>>, <<<<"c","o","m",".","a","p","p","l","e",".","p","a","g","e","s",".","p","a","g","e","s">>, <<".","p","a","g","e","s">>>>,
       <<<<"c","o","m",".","m","i","c","r","o","s","o","f","t",".","w","o","r","d",".","d","o","c">>, <<".","d","o","c">>>>,
       <<<<"o","r","g",".","o","p","e","n","x","m","l","f","o","r","m","a","t","s",".","w","o","r","d","p","r","o","c","e","s","s","i","n","g","m","l",".","d","o","c","u","m","e","n","t">>, <<".","d","o","c","x">>>>,
       <<<<"c","o","m",".","m","i","c","r","o","s","o","f","t",".","e","x","c","e","l",".","x","l","s">>, <<".","x","l","s">>>>,
       <<<<"o","r","g",".","o","p","e","n","x","m","l","f","o","r","m","a","t","s",".","s","p","r","e","a","d","s","h","e","e","t","m","l",".","s","h","e","e","t">>, <<".","x","l","s","x">>>>,
       <<<<"c","o","m",".","m","i","c","r","o","s","o","f","t",".","p","o","w","e","r","p","o","i","n","t",".","p","p","t">>, <<".","p","p","t">>>>,
       <<<<"o","r","g",".","o","p","e","n","x","m","l","f","o","r","m","a","t","s",".","p","r","e","s","e","n","t","a","t","i","o","n","m","l",".","p","r","e","s","e","n","t","a","t","i","o","n">>, <<".","p","p","t","x">>>>,
       <<<<"p","u","b","l","i","c",".","m","p","e","g","-","4">>, <<".","m","p","4">>>>, <<<<"p","u","b","l","i","c",".","m","p","e","g","-","4","-","a","u","d","i","o">>, <<".","m","4","a">>>>,
       <<<<"p","u","b","l","i","c",".","m","p","3">>, <<".","m","p","3">>>>, <<<<"c","o","m",".","a","p","p","l","e",".","q","u","i","c","k","t","i","m","e","-","m","o","v","i","e">>, <<".","m","o","v">>>>,
       <<<<"c","o","m",".","a","p","p","l","e",".","d","r","a","w","i","n","g">>, <<".","p","n","g">>>>, <<<<"c","o","m",".","a","p","p","l","e",".","d","r","a","w","i","n","g",".","2">>, <<".","p","n","g">>>>,
       <<<<"c","o","m",".","a","p","p","l","e",".","p","a","p","e","r">>, <<".","p","n","g">>>>, <<<<"c","o","m",".","a","p","p","l","e",".","p","a","p","e","r",".","d","o","c",".","s","c","a","n">>, <<".","p","d","f">>>>,
       <<<<"c","o","m",".","a","p","p","l","e",".","n","o","t","e","s",".","g","a","l","l","e","r","y">>, <<".","j","p","g">>>> >>

\* mimetypes.guess_extension: it knows MIME types, and a UTI is none
MimeTypes == << <<<<"t","e","x","t","/","p","l","a","i","n">>, <<".","t","x","t">>>>, <<<<"i","m","a","g","e","/","p","n","g">>, <<".","p","n","g">>>> >>
Lookup(table, key) ==
    IF \E i \in 1..Len(table) : table[i][1] = key
    THEN (table[CHOOSE i \in 1..Len(table) : table[i][1] = key])[2]
    ELSE << >>
HasKey(table, key) == \E i \in 1..Len(table) : table[i][1] = key

get_extension_from_uti(uti, fallback_filename) ==
    IF HasKey(UTI_EXTENSIONS, uti) THEN Lookup(UTI_EXTENSIONS, uti)
    ELSE IF Lookup(MimeTypes, uti) # << >> THEN Lookup(MimeTypes, uti)
    ELSE IF fallback_filename # << >> THEN PathSuffix(fallback_filename)
    ELSE <<".","b","i","n">>

\* lines 254-256
non_file ==
    { <<"c","o","m",".","a","p","p","l","e",".","n","o","t","e","s",".","t","a","b","l","e">>, <<"c","o","m",".","a","p","p","l","e",".","n","o","t","e","s",".","i","n","l","i","n","e","t","e","x","t","a","t","t","a","c","h","m","e","n","t",".","h","a","s","h","t","a","g">>,
      <<"c","o","m",".","a","p","p","l","e",".","n","o","t","e","s",".","i","n","l","i","n","e","t","e","x","t","a","t","t","a","c","h","m","e","n","t",".","m","e","n","t","i","o","n">>,
      <<"c","o","m",".","a","p","p","l","e",".","n","o","t","e","s",".","i","n","l","i","n","e","t","e","x","t","a","t","t","a","c","h","m","e","n","t",".","l","i","n","k">>, <<"p","u","b","l","i","c",".","u","r","l">> }
img ==
    { <<"i","m","a","g","e">>, <<"j","p","e","g">>, <<"p","n","g">>, <<"g","i","f">>, <<"t","i","f","f">>, <<"s","c","a","n">>, <<"d","r","a","w","i","n","g">>, <<"g","a","l","l","e","r","y">>,
      <<"p","u","b","l","i","c",".","j","p","e","g">>, <<"p","u","b","l","i","c",".","p","n","g">>, <<"p","u","b","l","i","c",".","t","i","f","f">>, <<"p","u","b","l","i","c",".","g","i","f">>,
      <<"c","o","m",".","a","p","p","l","e",".","d","r","a","w","i","n","g">>, <<"c","o","m",".","a","p","p","l","e",".","d","r","a","w","i","n","g",".","2">>, <<"c","o","m",".","a","p","p","l","e",".","p","a","p","e","r">> }
pdf == { <<"p","d","f">>, <<"c","o","m",".","a","d","o","b","e",".","p","d","f">>, <<"c","o","m",".","a","p","p","l","e",".","p","a","p","e","r",".","d","o","c",".","s","c","a","n">> }

\* lines 275-278: the markup of a copied attachment
is_img(eff_uti) == \E i \in img : IsSubstr(i, Lower(eff_uti))
is_pdf(eff_uti) == \E p \in pdf : IsSubstr(p, Lower(eff_uti))
ImageMarkup(alt, rel_path) == <<"!","[">> \o alt \o <<"]","(">> \o rel_path \o <<")">>
PdfMarkup(alt, rel_path) == <<"[">> \o alt \o <<" ","(","P","D","F",")","]","(">> \o rel_path \o <<")">>
FileMarkup(alt, rel_path) == <<"[">> \o alt \o <<" ","(","F","i","l","e",")","]","(">> \o rel_path \o <<")">>
Markup(eff_uti, alt, rel_path) ==
    IF is_img(eff_uti) THEN ImageMarkup(alt, rel_path)
    ELSE IF is_pdf(eff_uti) THEN PdfMarkup(alt, rel_path)
    ELSE FileMarkup(alt, rel_path)

\* str.replace('_', ' ')
Underscores2Spaces(s) == [i \in 1..Len(s) |-> IF s[i] = "_" THEN " " ELSE s[i]]

\* ----------------------------------------------------- the token pattern
(* re.compile(r'!\[ATTACHMENT\|([^|]+)\|([^\]]+)\]').search(s, offset).    *)
(* Both groups are greedy runs of a negated class followed by the          *)
(* character the class excludes, so at a given start the only match takes  *)
(* the identifier up to the first "|" and the UTI up to the first "]"      *)
(* after it, each at least one character long.  Positions are 0-based.     *)
RECURSIVE FirstIndexFrom(_, _, _)
FirstIndexFrom(s, from, c) ==
    IF from >= Len(s) THEN -1
    ELSE IF s[from + 1] = c THEN from
    ELSE FirstIndexFrom(s, from + 1, c)

MatchesAt(s, i) ==
    LET a == i + Len(TokenPrefix)
        bar == FirstIndexFrom(s, a, "|")
        close == FirstIndexFrom(s, bar + 1, "]")
    IN  /\ Slice(s, i, a) = TokenPrefix
        /\ bar > a
        /\ close > bar + 1

NoMatch == [found |-> FALSE, start |-> 0, end |-> 0, att_id |-> << >>, uti_ph |-> << >>]
MatchAt(s, i) ==
    LET a == i + Len(TokenPrefix)
        bar == FirstIndexFrom(s, a, "|")
        close == FirstIndexFrom(s, bar + 1, "]")
    IN  [found |-> TRUE, start |-> i, end |-> close + 1,
         att_id |-> Slice(s, a, bar), uti_ph |-> Slice(s, bar + 1, close)]

\* regex.search(processed, offset): the leftmost match starting at or after offset
RECURSIVE RegexSearch(_, _)
RegexSearch(s, offset) ==
    IF offset >= Len(s) THEN NoMatch
    ELSE IF s[offset + 1] = TokenPrefix[1] /\ MatchesAt(s, offset) THEN MatchAt(s, offset)
    ELSE RegexSearch(s, offset + 1)

\* -------------------------------------- one token of process_attachments
\* lines 262-264: which branch answers the token
Branch_MemoFirst(uti_ph, att_id, cache) ==
    IF att_id \in DOMAIN cache THEN "memo"
    ELSE IF uti_ph \in non_file THEN "non_file"
    ELSE "resolve"
Branch(uti_ph, att_id, cache) ==
    IF uti_ph \in non_file THEN "non_file"
    ELSE IF att_id \in DOMAIN cache THEN "memo"
    ELSE "resolve"

\* processed_cache[att_id] = (dest_fname, repl), lines 279 and 281
CachePut(cache, key, dest_fname, repl) ==
    [k \in DOMAIN cache \cup {key} |->
        IF k = key THEN [dest_fname |-> dest_fname, repl |-> repl] ELSE cache[k]]
MemoizeSuccess_Forgets(cache, key, dest_fname, repl) == cache
MemoizeSuccess(cache, key, dest_fname, repl) == CachePut(cache, key, dest_fname, repl)
MemoizeSourceMissing(cache, key, repl) == CachePut(cache, key, << >>, repl)

Unsupported(uti) == <<"[","U","n","s","u","p","p","o","r","t","e","d",":"," ">> \o uti \o <<"]">>
AttDbMissing(id) == <<"[","A","t","t"," ","D","B"," ","m","i","s","s","i","n","g",":"," ">> \o id \o <<"]">>
AttSourceMissing(what) == <<"[","A","t","t"," ","s","o","u","r","c","e"," ","m","i","s","s","i","n","g",":"," ">> \o what \o <<"]">>
ErrorCopy(base_fname) == <<"[","E","r","r","o","r"," ","c","o","p","y"," ">> \o base_fname \o <<"]">>
(* Lines 261-281 for one match.  copy_ok is whether shutil.copy2 succeeds  *)
(* should the code come to call it.  Besides repl and the memo the result  *)
(* records what the iteration did: lookup (the attachment query ran),      *)
(* probe (find_attachment_source_path ran), copy (none, ok, failed), the   *)
(* failure kind, the effective UTI, and the alt text and relative path of  *)
(* a copied file.                                                          *)
Answer(repl, cache) ==
    [repl |-> repl, cache |-> cache, lookup |-> FALSE, probe |-> FALSE,
     copy |-> "none", failure |-> "none", eff_uti |-> << >>,
     alt |-> << >>, rel_path |-> << >>]

\* lines 272-280: the copy and its markup
Materialize(cache, att_id, copy_ok, att_pk, eff_uti, base_fname, safe_stem, ext) ==
    LET dest_fname == safe_stem \o <<"_">> \o att_pk \o ext
        rel_path == ATTACHMENTS_SUBDIR \o <<"/">> \o dest_fname
        alt == Underscores2Spaces(safe_stem)
        repl == Markup(eff_uti, alt, rel_path)
    IN  IF copy_ok
        THEN [Answer(repl, MemoizeSuccess(cache, att_id, dest_fname, repl))
                EXCEPT !.lookup = TRUE, !.probe = TRUE, !.copy = "ok",
                       !.eff_uti = eff_uti, !.alt = alt, !.rel_path = rel_path]
        ELSE [Answer(ErrorCopy(base_fname), cache)
                EXCEPT !.lookup = TRUE, !.probe = TRUE, !.copy = "failed",
                       !.failure = "copy_error", !.eff_uti = eff_uti]

\* line 271
Named(cache, att_id, copy_ok, att_pk, eff_uti, base_fname) ==
    Materialize(cache, att_id, copy_ok, att_pk, eff_uti, base_fname,
                sanitize_filename(PathStem(base_fname)),
                get_extension_from_uti(eff_uti, base_fname))

\* lines 270-281: src is what find_attachment_source_path returned
Located(cache, att_id, copy_ok, d, eff_uti, source) ==
    IF source # NotFound
    THEN Named(cache, att_id, copy_ok, d.att_pk, eff_uti, Or(d.fname, source[Len(source)]))
    ELSE [Answer(AttSourceMissing(Or(d.fname, att_id)),
                 MemoizeSourceMissing(cache, att_id, AttSourceMissing(Or(d.fname, att_id))))
            EXCEPT !.lookup = TRUE, !.probe = TRUE, !.failure = "source_missing",
                   !.eff_uti = eff_uti]

\* lines 266-269: d is what get_attachment_and_media_details returned
LookedUp(db, fs, acc_uuid, cache, att_id, copy_ok, d, eff_uti) ==
    IF d.att_pk = << >>
    THEN [Answer(AttDbMissing(att_id), cache)
            EXCEPT !.lookup = TRUE, !.failure = "db_missing", !.eff_uti = eff_uti]
    ELSE Located(cache, att_id, copy_ok, d, eff_uti,
                 find_attachment_source_path(db, fs, d.att_pk, eff_uti,
                                             d.med_id, d.fname, d.gen, acc_uuid))

Details(db, fs, acc_uuid, cache, att_id, uti_ph, copy_ok, d) ==
    LookedUp(db, fs, acc_uuid, cache, att_id, copy_ok, d, EffectiveUti(d.uti, uti_ph))

Resolve(db, fs, acc_uuid, cache, att_id, uti_ph, copy_ok) ==
    IF Branch(uti_ph, att_id, cache) = "non_file" THEN Answer(Unsupported(uti_ph), cache)
    ELSE IF Branch(uti_ph, att_id, cache) = "memo" THEN Answer(cache[att_id].repl, cache)
    ELSE Details(db, fs, acc_uuid, cache, att_id, uti_ph, copy_ok,
                 get_attachment_and_media_details(db, att_id))

\* line 282
Splice(s, m, repl) == Slice(s, 0, m.start) \o repl \o From(s, m.end)
ResumeOffset_AtMatchStart(m, repl) == m.start
ResumeOffset_AfterToken(m, repl) == m.end
ResumeOffset(m, repl) == m.start + Len(repl)

\* ---------------------------------------------- the substitution world
SubstDatabase ==
    Database(
      { AttachmentRow(<<"1">>, <<"A","1">>, UTI_jpeg, <<"8">>, << >>, << >>, << >>, << >>),
        AttachmentRow(<<"2">>, <<"S","1">>, UTI_scan, << >>, << >>, <<"g">>, << >>, << >>),
        AttachmentRow(<<"3">>, <<"P","1">>, UTI_pdf, <<"9">>, << >>, << >>, << >>, << >>),
        AttachmentRow(<<"4">>, <<"F","1">>, << >>, <<"1","0">>, << >>, << >>, << >>, << >>),
        AttachmentRow(<<"5">>, <<"E","1">>, UTI_jpeg, <<"1","1">>, << >>, << >>, << >>, << >>) },
      { MediaRow(<<"8">>, <<"M","1">>, <<"a"," ","b",".","j","p","g">>, << >>),
        MediaRow(<<"9">>, <<"M","2">>, <<"d",".","p","d","f">>, <<"7">>),
        MediaRow(<<"1","0">>, <<"M","3">>, <<"n",".","t","x","t">>, << >>),
        MediaRow(<<"1","1">>, <<"M","4">>, <<"!","[","A","T","T","A","C","H","M","E","N","T","|","A","1","|","p","u","b","l","i","c",".","j","p","e","g","]">>, << >>) })
AccountBase == JoinPath(NOTES_DATA_PATH, <<<<"A","c","c","o","u","n","t","s">>, AccountUuid>>)
SubstFiles ==
    { MediaNoGeneration(AccountBase, <<"M","1">>, <<"a"," ","b",".","j","p","g">>),
      FallbackPdf(NOTES_DATA_PATH, <<"S","1">>, <<"g">>),
      MediaWithGeneration(NOTES_DATA_PATH, <<"M","2">>, <<"d",".","p","d","f">>, <<"7">>),
      MediaNoGeneration(NOTES_DATA_PATH, <<"M","3">>, <<"n",".","t","x","t">>) }
UTI_link == <<"c","o","m",".","a","p","p","l","e",".","n","o","t","e","s",".","i","n","l","i","n","e","t","e","x","t","a","t","t","a","c","h","m","e","n","t",".","l","i","n","k">>
TextPieces ==
    { <<"x">>,
      PlaceholderToken(<<"A","1">>, UTI_jpeg),
      PlaceholderToken(<<"A","1">>, UTI_link),
      PlaceholderToken(<<"S","1">>, UTI_scan),
      PlaceholderToken(<<"P","1">>, UTI_pdf),
      PlaceholderToken(<<"F","1">>, UTI_plaintext),
      PlaceholderToken(<<"E","1">>, UTI_jpeg),
      PlaceholderToken(<<"Z","9">>, UTI_jpeg) }
SubstTexts == {Concat(ps) : ps \in SeqsUpTo(TextPieces, MaxPieces)}

\* -------------------------------------------------- the notes of a run
TitleMaxLen == 80
\* the part of s before the first line break: s.split('\n', 1)[0]
FirstLine(s) ==
    IF FirstIndexFrom(s, 0, "\n") >= 0 THEN Slice(s, 0, FirstIndexFrom(s, 0, "\n")) ELSE s
StartsWith(s, prefix) == Slice(s, 0, Len(prefix)) = prefix
\* lines 286-293
NoteTitle(title, summary, pk, content) ==
    IF title # << >> THEN title
    ELSE LET potential_title == Strip(FirstLine(Strip(content)))
             first_line == IF Strip(content) # << >> /\ ~StartsWith(potential_title, <<"!","[","A","T","T","A","C","H","M","E","N","T">>)
                           THEN Slice(potential_title, 0, TitleMaxLen)
                           ELSE << >>
         IN  IF first_line # << >> THEN first_line
             ELSE IF summary # << >> THEN Strip(Slice(summary, 0, TitleMaxLen))
             ELSE <<"U","n","t","i","t","l","e","d","_","N","o","t","e","_">> \o pk
\* line 295
NotePath(title, pk) == sanitize_filename(title) \o <<"_">> \o pk \o <<".","m","d">>

\* get_notes_and_owners keeps only notes with a blob (line 146)
PlainNote ==
    [size0 |-> FALSE, wellformed |-> TRUE, hasNote |-> TRUE, noteText |-> <<"a">>,
     attributeRun |-> << >>]
NoteWithAttachment ==
    [size0 |-> FALSE, wellformed |-> TRUE, hasNote |-> TRUE, noteText |-> <<"a", FFFC>>,
     attributeRun |->
        << [length |-> 1, hasAttachmentInfo |-> FALSE,
            attachmentIdentifier |-> << >>, typeUti |-> << >>],
           [length |-> 1, hasAttachmentInfo |-> TRUE,
            attachmentIdentifier |-> <<"A","1">>, typeUti |-> UTI_jpeg] >>]
NoteRows ==
    [title : {<< >>, <<"T">>}, summary : {<< >>},
     blob : { [kind |-> "gzip", payload |-> PlainNote],
              [kind |-> "gzip", payload |-> NoteWithAttachment],
              [kind |-> "garbage", payload |-> NoPayload] }]
PkOf(i) == <<(<<"1", "2", "3", "4", "5", "6", "7", "8", "9">>)[i]>>

\* ================================================================ state
VARIABLES
    data_blob,         \* the blob handed to the two decoders
    content_ph,        \* what decode_note_protobuf returned
    text_only,         \* what decode_note_protobuf_text_only returned
    called,            \* which of the two decoders have run
    db,                \* the rows of the note store (read-only during a run)
    fs,                \* the attachment files that exist
    acc_uuid,          \* get_account_uuid's answer for the note's owner
    att_id,            \* the attachment identifier being located
    uti_ph,            \* the UTI its placeholder declares
    src,               \* what find_attachment_source_path returned
    located,           \* whether it has returned
    pc,                \* where process_attachments / main stands
    text_placeholders, \* the argument of process_attachments
    processed,         \* its working text
    offset,            \* where its next search starts
    processed_cache,   \* its per-note memo
    log,               \* what each iteration of its loop did
    deletions,         \* how many attachment files have vanished meanwhile
    notes,             \* main: the notes to export
    exported_count,    \* main: notes exported so far
    written,           \* main: the note files written
    folders,           \* the folder rows of the note store
    folder_owner_cache, \* the global memo of resolve_folder_owner
    stack,             \* the folders of its active calls, outermost first
    own_pc,            \* where the owner resolution stands
    final_owner,       \* the value the last call to return has returned
    f_pk,              \* the folder of the note being resolved
    resolved           \* how many notes have had their owner resolved

decVars == <<data_blob, content_ph, text_only, called>>
envVars == <<db, fs, acc_uuid>>
locVars == <<att_id, uti_ph, src, located>>
subVars == <<pc, text_placeholders, processed, offset, processed_cache, log, deletions>>
mainVars == <<notes, exported_count, written>>
ownVars == <<folders, folder_owner_cache, stack, own_pc, final_owner, f_pk, resolved>>
vars == <<decVars, envVars, locVars, subVars, mainVars, ownVars>>

NoDatabase == Database({}, {})
EmptyCache == [k \in {} |-> [dest_fname |-> << >>, repl |-> << >>]]
DecIdle == data_blob = [kind |-> "None", payload |-> NoPayload] /\ content_ph = << >>
           /\ text_only = << >> /\ called = {}
EnvIdle == db = NoDatabase /\ fs = {} /\ acc_uuid = << >>
LocIdle == att_id = << >> /\ uti_ph = << >> /\ src = NotFound /\ located = FALSE
SubIdle == pc = "idle" /\ text_placeholders = << >> /\ processed = << >> /\ offset = 0
           /\ processed_cache = EmptyCache /\ log = << >> /\ deletions = 0
MainIdle == notes = << >> /\ exported_count = 0 /\ written = << >>
OwnIdle ==
    /\ folders = << >> /\ folder_owner_cache = << >> /\ stack = << >>
    /\ own_pc = "idle" /\ final_owner = << >> /\ f_pk = << >> /\ resolved = 0

\* ------------------------------------------- the decoders, on every blob
DecInit ==
    /\ data_blob \in Blobs
    /\ content_ph = << >>
    /\ text_only = << >>
    /\ called = {}
    /\ EnvIdle /\ LocIdle /\ SubIdle /\ MainIdle /\ OwnIdle

DecodeNoteProtobuf ==
    /\ "decode_note_protobuf" \notin called
    /\ content_ph' = decode_note_protobuf(data_blob)
    /\ called' = called \cup {"decode_note_protobuf"}
    /\ UNCHANGED <<data_blob, text_only, envVars, locVars, subVars, mainVars, ownVars>>

DecodeNoteProtobufTextOnly ==
    /\ "decode_note_protobuf_text_only" \notin called
    /\ text_only' = decode_note_protobuf_text_only(data_blob)
    /\ called' = called \cup {"decode_note_protobuf_text_only"}
    /\ UNCHANGED <<data_blob, content_ph, envVars, locVars, subVars, mainVars, ownVars>>

DecNext == DecodeNoteProtobuf \/ DecodeNoteProtobufTextOnly
SpecDecode == DecInit /\ [][DecNext]_vars

\* ------------------- the locator, on every attachment and file system
LocInit ==
    /\ db \in LocateDatabases
    /\ acc_uuid \in {<< >>, AccountUuid}
    /\ att_id = <<"A","1">>
    /\ uti_ph \in LocateDeclaredUtis
    /\ fs \in SUBSET LocateUniverse(db, att_id, uti_ph)
    /\ src = NotFound
    /\ located = FALSE
    /\ DecIdle /\ SubIdle /\ MainIdle /\ OwnIdle

\* lines 265-269: the details of the attachment row, then the search
Locate ==
    /\ ~located
    /\ LET d == get_attachment_and_media_details(db, att_id)
       IN  /\ d.att_pk # << >>
           /\ src' = find_attachment_source_path(db, fs, d.att_pk, EffectiveUti(d.uti, uti_ph),
                                                 d.med_id, d.fname, d.gen, acc_uuid)
    /\ located' = TRUE
    /\ UNCHANGED <<att_id, uti_ph, decVars, envVars, subVars, mainVars, ownVars>>

LocNext == Locate
SpecLocate == LocInit /\ [][LocNext]_vars

\* ------------------------------------------------- process_attachments
\* lines 252-257.  att_dir.mkdir(exist_ok=True) is outside any try: when it
\* raises, the exception leaves process_attachments.
ProcessAttachmentsBegin ==
    /\ pc = "call"
    /\ \E mkdir_ok \in BOOLEAN :
          IF mkdir_ok
          THEN /\ pc' = "loop"
               /\ processed' = text_placeholders
               /\ processed_cache' = EmptyCache
               /\ offset' = 0
          ELSE /\ pc' = "raised"
               /\ UNCHANGED <<processed, processed_cache, offset>>
    /\ log' = << >>
    /\ UNCHANGED <<text_placeholders, deletions, decVars, envVars, locVars, mainVars, ownVars>>

\* line 282, with what the iteration did appended to the log
Substitute(m, r) ==
    /\ processed' = Splice(processed, m, r.repl)
    /\ offset' = ResumeOffset(m, r.repl)
    /\ processed_cache' = r.cache
    /\ log' = Append(log,
                [att_id |-> m.att_id, uti_ph |-> m.uti_ph, repl |-> r.repl,
                 lookup |-> r.lookup, probe |-> r.probe, copy |-> r.copy,
                 failure |-> r.failure, eff_uti |-> r.eff_uti,
                 alt |-> r.alt, rel_path |-> r.rel_path,
                 cache_changed |-> r.cache # processed_cache,
                 deletions |-> deletions])

\* lines 261-282 for the match m
OnMatch(m) ==
    /\ m.found
    /\ \E copy_ok \in BOOLEAN :
          \E r \in {Resolve(db, fs, acc_uuid, processed_cache, m.att_id, m.uti_ph, copy_ok)} :
              Substitute(m, r)

\* one iteration of the loop of line 258 that finds a match
ProcessAttachmentsStep ==
    /\ pc = "loop"
    /\ \E m \in {RegexSearch(processed, offset)} : OnMatch(m)
    /\ UNCHANGED <<pc, text_placeholders, deletions, decVars, envVars, locVars, mainVars, ownVars>>

\* the iteration that finds none: break, return processed
ProcessAttachmentsReturn ==
    /\ pc = "loop"
    /\ ~RegexSearch(processed, offset).found
    /\ pc' = "returned"
    /\ UNCHANGED <<text_placeholders, processed, offset, processed_cache, log, deletions,
                   decVars, envVars, locVars, mainVars, ownVars>>

\* the store is not the program's: a file can vanish while a note is processed
FileVanishes ==
    /\ pc = "loop"
    /\ deletions < MaxDeletes
    /\ \E f \in fs : fs' = fs \ {f}
    /\ deletions' = deletions + 1
    /\ UNCHANGED <<db, acc_uuid, pc, text_placeholders, processed, offset, processed_cache,
                   log, decVars, locVars, mainVars, ownVars>>

SubInit ==
    /\ pc = "call"
    /\ text_placeholders \in SubstTexts
    /\ processed = << >>
    /\ offset = 0
    /\ processed_cache = EmptyCache
    /\ log = << >>
    /\ deletions = 0
    /\ db = SubstDatabase
    /\ fs = SubstFiles
    /\ acc_uuid = AccountUuid
    /\ DecIdle /\ LocIdle /\ MainIdle /\ OwnIdle

SubNext ==
    \/ ProcessAttachmentsBegin
    \/ ProcessAttachmentsStep
    \/ ProcessAttachmentsReturn
    \/ FileVanishes
SpecSubst == SubInit /\ [][SubNext]_vars
\* the iteration of line 259 is due exactly when the search finds a match
StepDue == pc = "loop" /\ RegexSearch(processed, offset).found
\* the interpreter runs the call, every iteration and the return when they are
\* due; nothing obliges a file to vanish.  Weak fairness of the iteration is
\* written out, []<>(not enabled) \/ []<>(taken), with StepDue as its
\* enabling condition.
SubFairness ==
    /\ WF_vars(ProcessAttachmentsBegin)
    /\ WF_vars(ProcessAttachmentsReturn)
    /\ ([]<>(~StepDue) \/ []<><<ProcessAttachmentsStep>>_vars)
\* the texts of the termination check: plain text, a token whose replacement
\* holds a token (E1), one that is copied (A1), one with no row (Z9)
LivePieces ==
    { <<"x">>,
      PlaceholderToken(<<"E","1">>, UTI_jpeg),
      PlaceholderToken(<<"A","1">>, UTI_jpeg),
      PlaceholderToken(<<"Z","9">>, UTI_jpeg) }
LiveTexts == {Concat(ps) : ps \in SeqsUpTo(LivePieces, MaxPieces)}
SubLiveInit == SubInit /\ text_placeholders \in LiveTexts
SpecSubstLive == SubLiveInit /\ [][SubNext]_vars /\ SubFairness

\* ------------------------------------------------ main, Markdown mode
\* line 420, and export_note_to_markdown up to its call of process_attachments
MainDecode ==
    /\ pc = "next_note"
    /\ exported_count < Len(notes)
    /\ content_ph' = decode_note_protobuf(notes[exported_count + 1].blob)
    /\ text_placeholders' = content_ph'
    /\ pc' = "call"
    /\ UNCHANGED <<data_blob, text_only, called, processed, offset, processed_cache, log,
                   deletions, envVars, locVars, mainVars, ownVars>>

\* lines 297-306 and 422: the write is in a try that logs and goes on
ExportWrite ==
    /\ pc = "returned"
    /\ notes # << >>
    /\ LET note == notes[exported_count + 1]
           pk == PkOf(exported_count + 1)
           title == NoteTitle(note.title, note.summary, pk, content_ph)
       IN  \E write_ok \in BOOLEAN :
              written' = IF write_ok
                       THEN Append(written, [fpath |-> NotePath(title, pk), title |-> title,
                                           body |-> RemoveChar(processed, FFFC)])
                       ELSE written
    /\ exported_count' = exported_count + 1
    /\ pc' = "next_note"
    /\ UNCHANGED <<notes, text_placeholders, processed, offset, processed_cache, log,
                   deletions, decVars, envVars, locVars, ownVars>>

\* the loop of line 419 is exhausted
MainFinish ==
    /\ pc = "next_note"
    /\ exported_count = Len(notes)
    /\ pc' = "finished"
    /\ UNCHANGED <<text_placeholders, processed, offset, processed_cache, log, deletions,
                   decVars, envVars, locVars, mainVars, ownVars>>

\* line 429: an exception that left the loop ends the run
MainAbort ==
    /\ pc = "raised"
    /\ notes # << >>
    /\ pc' = "aborted"
    /\ UNCHANGED <<text_placeholders, processed, offset, processed_cache, log, deletions,
                   decVars, envVars, locVars, mainVars, ownVars>>

MainInit ==
    /\ notes \in UNION {[1..n -> NoteRows] : n \in 1..MaxNotes}
    /\ exported_count = 0
    /\ written = << >>
    /\ pc = "next_note"
    /\ text_placeholders = << >>
    /\ processed = << >>
    /\ offset = 0
    /\ processed_cache = EmptyCache
    /\ log = << >>
    /\ deletions = 0
    /\ db = SubstDatabase
    /\ fs = SubstFiles
    /\ acc_uuid = AccountUuid
    /\ DecIdle /\ LocIdle /\ OwnIdle

MainNext ==
    \/ MainDecode
    \/ ProcessAttachmentsBegin
    \/ ProcessAttachmentsStep
    \/ ProcessAttachmentsReturn
    \/ ExportWrite
    \/ MainFinish
    \/ MainAbort
SpecMain == MainInit /\ [][MainNext]_vars


\* ------------------------------------------------- the owner of a folder
\* A primary key is <<n>> and None is << >>.  The folder table gives every
\* folder an owner (an account, or None) and a parent (a folder, a key with no
\* row, or None); nothing in the store keeps the parents acyclic.
FolderPk(n) == <<n>>
FolderPks == {FolderPk(n) : n \in 1..MaxFolders}
DanglingPk == FolderPk(MaxFolders + 1)
AccountPk == FolderPk(0)
FolderRow(owner, parent) == [ZOWNER |-> owner, ZPARENT |-> parent]
FolderTables ==
    [FolderPks -> {FolderRow(o, p) : o \in {<< >>, AccountPk},
                                     p \in {<< >>} \cup FolderPks \cup {DanglingPk}}]

\* get_folder_info: owner and parent of the row, None and None without a row
get_folder_info(table, folder_pk) ==
    IF folder_pk \in DOMAIN table
    THEN [owner_pk |-> table[folder_pk].ZOWNER, parent_pk |-> table[folder_pk].ZPARENT]
    ELSE [owner_pk |-> << >>, parent_pk |-> << >>]

\* line 120: folder_owner_cache[folder_pk] = final_owner
OwnerCachePut(cache, folder_pk, owner) ==
    [k \in DOMAIN cache \cup {folder_pk} |-> IF k = folder_pk THEN owner ELSE cache[k]]

\* a call returns v to its caller, or to get_notes_and_owners
ReturnOwner(v) ==
    /\ final_owner' = v
    /\ stack' = SubSeq(stack, 1, Len(stack) - 1)
    /\ IF Len(stack) = 1
       THEN own_pc' = "returned" /\ resolved' = resolved + 1
       ELSE own_pc' = "returning" /\ UNCHANGED resolved

\* lines 137-144: the next note's folder, which has a row and a type
ResolveNote ==
    /\ own_pc \in {"ready", "returned"}
    /\ resolved < MaxNotes
    /\ \E f \in FolderPks :
          /\ f_pk' = f
          /\ stack' = <<f>>
    /\ own_pc' = "called"
    /\ final_owner' = << >>
    /\ UNCHANGED <<folders, folder_owner_cache, resolved,
                   decVars, envVars, locVars, subVars, mainVars>>

\* lines 116-119 in the innermost call: the memo, else the row; an owner-less
\* folder with a parent calls itself for the parent, and the interpreter
\* raises RecursionError when the calls nest deeper than its limit
EnterFolder(folder_pk, info) ==
    IF folder_pk \in DOMAIN folder_owner_cache
    THEN ReturnOwner(folder_owner_cache[folder_pk]) /\ UNCHANGED folder_owner_cache
    ELSE IF info.owner_pk # << >>
    THEN /\ ReturnOwner(info.owner_pk)
         /\ folder_owner_cache' = OwnerCachePut(folder_owner_cache, folder_pk, info.owner_pk)
    ELSE IF info.parent_pk = << >>
    THEN /\ ReturnOwner(<< >>)
         /\ folder_owner_cache' = OwnerCachePut(folder_owner_cache, folder_pk, << >>)
    ELSE IF Len(stack) >= RecursionLimit
    THEN /\ own_pc' = "RecursionError"
         /\ UNCHANGED <<stack, final_owner, folder_owner_cache, resolved>>
    ELSE /\ stack' = Append(stack, info.parent_pk)
         /\ own_pc' = "called"
         /\ UNCHANGED <<final_owner, folder_owner_cache, resolved>>
ResolveEnter ==
    /\ own_pc = "called"
    /\ \E folder_pk \in {stack[Len(stack)]} :
          EnterFolder(folder_pk, get_folder_info(folders, folder_pk))
    /\ UNCHANGED <<folders, f_pk, decVars, envVars, locVars, subVars, mainVars>>

\* lines 119-120 in a call whose recursive call has returned
ResolveReturn ==
    /\ own_pc = "returning"
    /\ folder_owner_cache' = OwnerCachePut(folder_owner_cache, stack[Len(stack)], final_owner)
    /\ ReturnOwner(final_owner)
    /\ UNCHANGED <<folders, f_pk, decVars, envVars, locVars, subVars, mainVars>>

OwnerInit ==
    /\ folders \in FolderTables
    /\ folder_owner_cache = << >>
    /\ stack = << >>
    /\ own_pc = "ready"
    /\ final_owner = << >>
    /\ f_pk = << >>
    /\ resolved = 0
    /\ DecIdle /\ EnvIdle /\ LocIdle /\ SubIdle /\ MainIdle

OwnerNext ==
    \/ ResolveNote
    \/ ResolveEnter
    \/ ResolveReturn
SpecOwner == OwnerInit /\ [][OwnerNext]_vars

\* ================================================================ claims
ParsedNote(blob) ==
    /\ blob.kind \in {"gzip", "zlib"}
    /\ ~blob.payload.size0
    /\ blob.payload.wellformed
    /\ blob.payload.hasNote

RECURSIVE SumLengths(_, _)
SumLengths(runs, n) == IF n = 0 THEN 0 ELSE runs[n].length + SumLengths(runs, n - 1)

\* the cursor P of run i: the lengths of the runs before it, from 0
CursorOf(runs, i) == SumLengths(runs, i - 1)

PieceWithPlaceholders(note, i) ==
    LET run == note.attributeRun[i]
        P == CursorOf(note.attributeRun, i)
    IN  IF run.hasAttachmentInfo
        THEN <<"!","[","A","T","T","A","C","H","M","E","N","T","|">> \o run.attachmentIdentifier \o <<"|">> \o run.typeUti \o <<"]">>
        ELSE Slice(note.noteText, P, P + run.length)

PieceTextOnly(note, i) ==
    LET run == note.attributeRun[i]
        P == CursorOf(note.attributeRun, i)
    IN  IF run.hasAttachmentInfo THEN << >> ELSE Slice(note.noteText, P, P + run.length)

\* C1: for every parsed note, decode_note_protobuf returns the in-order
\* concatenation over the runs of noteText[P:P+L] (run without attachmentInfo)
\* or the token ![ATTACHMENT|id|uti] (run with it), the cursor P being the sum
\* of the lengths of all earlier runs of either kind; with no runs it returns
\* noteText unchanged.
C1_WithPlaceholders ==
    ("decode_note_protobuf" \in called /\ ParsedNote(data_blob)) =>
        LET note == data_blob.payload
        IN  content_ph =
                IF note.attributeRun = << >> THEN note.noteText
                ELSE Concat([i \in 1..Len(note.attributeRun) |-> PieceWithPlaceholders(note, i)])

\* an attachment run over the placeholder character, then a text run
C1_Witness ==
    /\ "decode_note_protobuf" \in called
    /\ ParsedNote(data_blob)
    /\ Len(data_blob.payload.attributeRun) = 2
    /\ data_blob.payload.attributeRun[1].hasAttachmentInfo
    /\ data_blob.payload.attributeRun[1].length = 1
    /\ ~data_blob.payload.attributeRun[2].hasAttachmentInfo
    /\ data_blob.payload.attributeRun[2].length = 1
    /\ data_blob.payload.noteText = <<FFFC, "a">>
    /\ content_ph = <<"!","[","A","T","T","A","C","H","M","E","N","T","|","A","1","|","p","u","b","l","i","c",".","j","p","e","g","]","a">>

\* C8: for a non-empty blob the result is "[Decompression failed]" if and
\* only if both inflate attempts fail.
BothInflatesFail(blob) ==
    /\ ZlibDecompress(blob, TRUE).raised # "no"
    /\ ZlibDecompress(blob, FALSE).raised # "no"
C8_FailedIffBothFail ==
    ("decode_note_protobuf" \in called /\ ~BlobFalsy(data_blob)) =>
        (content_ph = DecompressionFailed <=> BothInflatesFail(data_blob))

\* C10: for every parsed note, decode_note_protobuf_text_only returns the
\* concatenation of noteText[P:P+L] over the runs without attachmentInfo
\* (every run advancing P), or noteText when there are no runs, with U+FFFC
\* removed and then stripped; no token appears in it; and with the note absent
\* both decoders return the same sentinel.
C10_TextOnly ==
    /\ ("decode_note_protobuf_text_only" \in called /\ ParsedNote(data_blob)) =>
          LET note == data_blob.payload
              raw == IF note.attributeRun = << >> THEN note.noteText
                     ELSE Concat([i \in 1..Len(note.attributeRun) |-> PieceTextOnly(note, i)])
          IN  /\ text_only = Strip(RemoveChar(raw, FFFC))
              /\ ~IsSubstr(TokenPrefix, text_only)
              /\ FFFC \notin {text_only[k] : k \in 1..Len(text_only)}
    /\ (/\ called = {"decode_note_protobuf", "decode_note_protobuf_text_only"}
        /\ data_blob.kind \in {"gzip", "zlib"}
        /\ ~data_blob.payload.size0
        /\ data_blob.payload.wellformed
        /\ ~data_blob.payload.hasNote) =>
          (text_only = content_ph /\ text_only = DocNoteNotFound)

\* an attachment run between two text runs is dropped, U+FFFC is removed
C10_Witness ==
    /\ "decode_note_protobuf_text_only" \in called
    /\ ParsedNote(data_blob)
    /\ Len(data_blob.payload.attributeRun) = 2
    /\ data_blob.payload.attributeRun[1].hasAttachmentInfo
    /\ data_blob.payload.attributeRun[1].length = 1
    /\ data_blob.payload.attributeRun[2].length = 1
    /\ ~data_blob.payload.attributeRun[2].hasAttachmentInfo
    /\ data_blob.payload.noteText = <<FFFC, "a">>
    /\ text_only = <<"a">>

\* the candidates of the attachment over the bases, in priority order
AllCandidates ==
    LET d == get_attachment_and_media_details(db, att_id)
        bases == BasePaths(acc_uuid)
    IN  Concat([b \in 1..Len(bases) |->
                   CandidatesInBase(db, bases[b], d.att_pk, EffectiveUti(d.uti, uti_ph),
                                    d.med_id, d.fname, d.gen)])
FirstExisting(cands, files) ==
    IF \E i \in 1..Len(cands) : cands[i] \in files
    THEN cands[CHOOSE i \in 1..Len(cands) :
                  cands[i] \in files /\ \A j \in 1..(i - 1) : cands[j] \notin files]
    ELSE NotFound

\* C6: find_attachment_source_path returns the first existing candidate, the
\* account-scoped base before the top-level directory and within a base the
\* strategies in their order; it returns None if and only if no candidate of
\* an applicable strategy exists under any base.
C6_FirstExistingCandidate ==
    located =>
        /\ src = FirstExisting(AllCandidates, fs)
        /\ (src = NotFound <=> Range(AllCandidates) \cap fs = {})

\* what does hold: the same over the candidates the code goes on to test,
\* which leave out FallbackImages/<id>.jpg
ProbedCandidates ==
    SelectSeq(AllCandidates,
              LAMBDA p : p[Len(p)] # att_id \o <<".">> \o DrawingExts[1])
LocatorReturnsFirstProbed ==
    located =>
        /\ src = FirstExisting(ProbedCandidates, fs)
        /\ (src = NotFound <=> Range(ProbedCandidates) \cap fs = {})

\* the drawing-strategy paths of one base in the order the claim gives them
DrawingCandidates(base, a_uuid, fb_g) ==
    (IF fb_g # << >> THEN <<FallbackImageGenerated(base, a_uuid, fb_g)>> ELSE << >>)
    \o <<FallbackImageFlat(base, a_uuid, DrawingExts[1]),
         FallbackImageFlat(base, a_uuid, DrawingExts[2])>>
DrawingRow == FetchOne(db.attachments, "ZIDENTIFIER", att_id, NoAttachmentRow)
AllDrawingCandidates ==
    LET bases == BasePaths(acc_uuid)
    IN  Concat([b \in 1..Len(bases) |->
                   DrawingCandidates(bases[b], DrawingRow.ZIDENTIFIER,
                                     DrawingRow.ZFALLBACKIMAGEGENERATION)])
IsDrawingLookup ==
    /\ EffectiveUti(DrawingRow.ZTYPEUTI, uti_ph) \in DrawingUtis
    /\ DrawingRow.ZIDENTIFIER # << >>
    /\ DrawingRow.ZMEDIA = << >>

\* C11: for a drawing-family attachment with a known fallback-image
\* identifier (and no media file to find first), the locator returns the first
\* existing of FallbackImages/<id>/<generation>/FallbackImage.png (when a
\* generation is present), FallbackImages/<id>.jpg, FallbackImages/<id>.png,
\* base by base; so <id>.jpg is returned when it exists and the generation
\* path does not.
C11_DrawingFallbackOrder ==
    (located /\ IsDrawingLookup) => src = FirstExisting(AllDrawingCandidates, fs)

\* the standard-media paths of one base: with the generation, then without
LocateDetails == get_attachment_and_media_details(db, att_id)
MediaCandidates(base) ==
    << MediaWithGeneration(base, LocateDetails.med_id, LocateDetails.fname, LocateDetails.gen),
       MediaNoGeneration(base, LocateDetails.med_id, LocateDetails.fname) >>
\* the search gets to base b: no path it builds under an earlier base exists
ReachesBase(b) ==
    \A e \in 1..(b - 1) :
        Range(CandidatesInBase(db, BasePaths(acc_uuid)[e], LocateDetails.att_pk,
                               EffectiveUti(LocateDetails.uti, uti_ph), LocateDetails.med_id,
                               LocateDetails.fname, LocateDetails.gen)) \cap fs = {}

\* C12: when media identifier and filename are known, each base the search
\* gets to yields Media/<mediaId>/<generation>/<filename> if it exists and
\* otherwise Media/<mediaId>/<filename> whenever that exists, whether or not
\* a generation is stored; with no generation the first probe is the
\* generation-less path itself; and p_no_g is never read unassigned.
C12_StandardMediaFallback ==
    (located /\ LocateDetails.med_id # << >> /\ LocateDetails.fname # << >>) =>
        /\ src # UnboundLocalError
        /\ \A b \in 1..Len(BasePaths(acc_uuid)) :
              LET cands == MediaCandidates(BasePaths(acc_uuid)[b])
              IN  /\ (ReachesBase(b) /\ Range(cands) \cap fs # {})
                         => src = FirstExisting(cands, fs)
                  /\ (LocateDetails.gen = << >> => cands[1] = cands[2])
\* a generation is stored, the generation path is gone from both bases, and the
\* generation-less file of the top-level directory is what is returned
C12_Witness ==
    /\ located
    /\ LocateDetails.gen # << >>
    /\ acc_uuid # << >>
    /\ ReachesBase(2)
    /\ MediaCandidates(NOTES_DATA_PATH)[1] \notin fs
    /\ src = MediaNoGeneration(NOTES_DATA_PATH, LocateDetails.med_id, LocateDetails.fname)
    /\ src \in fs

\* the token occurrences of a text, non-overlapping, scanned left to right
RECURSIVE Occurrences(_, _)
Occurrences(s, from) ==
    LET m == RegexSearch(s, from)
    IN  IF m.found THEN <<m>> \o Occurrences(s, m.end) ELSE << >>
\* where the text between occurrence i - 1 and occurrence i starts
GapStart(toks, i) == IF i = 1 THEN 0 ELSE toks[i - 1].end
\* the input up to the end of occurrence k, each occurrence replaced by the
\* replacement made for it
ReplacedPrefix(toks, k) ==
    Concat([i \in 1..k |->
               Slice(text_placeholders, GapStart(toks, i), toks[i].start) \o log[i].repl])
ReplacedSoFar(toks, prefix) ==
    /\ Len(log) <= Len(toks)
    /\ \A i \in 1..Len(log) :
          log[i].att_id = toks[i].att_id /\ log[i].uti_ph = toks[i].uti_ph
    /\ processed = prefix \o From(text_placeholders, GapStart(toks, Len(log) + 1))
    /\ offset = Len(prefix)
    /\ (pc = "returned" => Len(log) = Len(toks))

\* C2: at every point of the loop the working text is the input with its
\* first Len(log) token occurrences each replaced by the one replacement made
\* for it, everything outside them unchanged and in order; the scan resumes at
\* the end of the last replacement; and on return every occurrence has been
\* replaced, so no replacement was matched again.
C2_EveryTokenOnce ==
    (pc \in {"loop", "returned"}) =>
        LET toks == Occurrences(text_placeholders, 0)
        IN  Len(log) <= Len(toks) /\ ReplacedSoFar(toks, ReplacedPrefix(toks, Len(log)))

\* a replacement that itself holds a whole token, followed by a real token
C2_Witness ==
    /\ pc = "returned"
    /\ text_placeholders = PlaceholderToken(<<"E","1">>, UTI_jpeg) \o PlaceholderToken(<<"A","1">>, UTI_jpeg)
    /\ Len(log) = 2
    /\ log[1].repl = <<"[","A","t","t"," ","s","o","u","r","c","e"," ","m","i","s","s","i","n","g",":"," ","!","[","A","T","T","A","C","H","M","E","N","T","|","A","1","|","p","u","b","l","i","c",".","j","p","e","g","]","]">>
    /\ log[2].copy = "ok"
    /\ processed = log[1].repl \o log[2].repl

\* C3: after an identifier was copied successfully, a later token with that
\* identifier and a file-type UTI takes the same markup from the memo, with no
\* attachment query, no search of the store and no copy; so no identifier is
\* copied twice.
C3_SuccessMemoized ==
    /\ \A i, j \in 1..Len(log) :
          (i < j /\ log[i].copy = "ok" /\ log[j].att_id = log[i].att_id
             /\ log[j].uti_ph \notin non_file) =>
              /\ log[j].repl = log[i].repl
              /\ ~log[j].lookup
              /\ ~log[j].probe
              /\ log[j].copy = "none"
    /\ \A i, j \in 1..Len(log) :
          (log[i].copy = "ok" /\ log[j].copy = "ok" /\ log[i].att_id = log[j].att_id) => i = j

\* the source file vanished between two tokens of the same identifier
C3_Witness ==
    /\ Len(log) = 2
    /\ log[1].att_id = <<"A","1">> /\ log[2].att_id = <<"A","1">>
    /\ log[1].copy = "ok"
    /\ log[2].uti_ph \notin non_file
    /\ log[1].deletions = 0 /\ log[2].deletions = 1
    /\ MediaNoGeneration(AccountBase, <<"M","1">>, <<"a"," ","b",".","j","p","g">>) \notin fs
    /\ log[2].repl = <<"!","[","a"," ","b","]","(","_","a","t","t","a","c","h","m","e","n","t","s","/","a","_","b","_","1",".","j","p","g",")">>

\* C4: after any failure to resolve an identifier (no attachment row, no
\* source file, copy error) a later token with that identifier is answered
\* from the memo with the same marker, with no attachment query and no search
\* of the store.
C4_FailureMemoized ==
    \A i, j \in 1..Len(log) :
        (i < j /\ log[i].failure # "none" /\ log[j].att_id = log[i].att_id
           /\ log[j].uti_ph \notin non_file) =>
            /\ log[j].repl = log[i].repl
            /\ ~log[j].lookup
            /\ ~log[j].probe

\* C5: a token whose declared UTI is in the non-file set becomes
\* "[Unsupported: <uti>]" whatever the memo and the database hold, with no
\* attachment query, no search of the store, no copy and the memo unchanged.
C5_NonFileUnsupported ==
    \A i \in 1..Len(log) :
        log[i].uti_ph \in non_file =>
            /\ log[i].repl = <<"[","U","n","s","u","p","p","o","r","t","e","d",":"," ">> \o log[i].uti_ph \o <<"]">>
            /\ ~log[i].lookup
            /\ ~log[i].probe
            /\ log[i].copy = "none"
            /\ ~log[i].cache_changed

\* the identifier is in the database and already in the memo
C5_Witness ==
    /\ Len(log) = 2
    /\ log[1].att_id = <<"A","1">> /\ log[1].copy = "ok"
    /\ <<"A","1">> \in DOMAIN processed_cache
    /\ log[2].att_id = <<"A","1">> /\ log[2].uti_ph = UTI_link
    /\ log[2].repl = <<"[","U","n","s","u","p","p","o","r","t","e","d",":"," ","c","o","m",".","a","p","p","l","e",".","n","o","t","e","s",".","i","n","l","i","n","e","t","e","x","t","a","t","t","a","c","h","m","e","n","t",".","l","i","n","k","]">>

\* C7: the markup of a copied attachment follows its effective UTI: a PDF UTI
\* (com.adobe.pdf, com.apple.paper.doc.scan, or any UTI containing "pdf")
\* gives "[alt (PDF)](path)", an image UTI "![alt](path)", any other
\* "[alt (File)](path)".
PdfUti(uti) == uti = UTI_pdf \/ uti = UTI_scan \/ IsSubstr(<<"p","d","f">>, Lower(uti))
C7_MarkupByClass ==
    \A i \in 1..Len(log) :
        log[i].copy = "ok" =>
            log[i].repl =
                IF PdfUti(log[i].eff_uti)
                THEN <<"[">> \o log[i].alt \o <<" ","(","P","D","F",")","]","(">> \o log[i].rel_path \o <<")">>
                ELSE IF is_img(log[i].eff_uti)
                THEN <<"!","[">> \o log[i].alt \o <<"]","(">> \o log[i].rel_path \o <<")">>
                ELSE <<"[">> \o log[i].alt \o <<" ","(","F","i","l","e",")","]","(">> \o log[i].rel_path \o <<")">>

\* C9: no note aborts the run: when main has ended, every note of the list
\* has been processed.
C9_EveryNoteProcessed ==
    (pc \in {"finished", "aborted"}) => exported_count = Len(notes)

\* the part of the working text the scan has not passed yet
Unscanned == From(processed, offset)
IsSuffix(t, s) == Len(t) <= Len(s) /\ From(s, Len(s) - Len(t)) = t
\* every iteration leaves the scan at the end of the replacement it made and a
\* strictly shorter unscanned text
IterationShrinks ==
    (pc = "loop" /\ Len(log') = Len(log) + 1) =>
        /\ Len(From(processed', offset')) < Len(Unscanned)
        /\ IsSuffix(From(processed', offset'), Unscanned)
        /\ offset' >= Len(log'[Len(log')].repl)
        /\ Slice(processed', offset' - Len(log'[Len(log')].repl), offset')
               = log'[Len(log')].repl
\* what is not yet scanned is a tail of the input, and no more iterations
\* were made than the input has token matches
BoundedIterations ==
    (pc \in {"loop", "returned"}) =>
        /\ IsSuffix(Unscanned, text_placeholders)
        /\ Len(log) <= Len(Occurrences(text_placeholders, 0))

\* StepDue is the enabling condition of the iteration, so SubFairness is weak
\* fairness of the iteration
StepDueIsEnabled == StepDue <=> ENABLED <<ProcessAttachmentsStep>>_vars

\* C13: the substitution loop terminates for every input text: the call
\* returns (or raises before the loop); each iteration resumes the scan at
\* the end of its replacement and strictly shortens the unscanned tail of the
\* input; and the iterations number at most the token matches of the input,
\* also when a replacement holds a token.
C13_LoopTerminates ==
    /\ []BoundedIterations
    /\ [][IterationShrinks]_vars
    /\ <>(pc \in {"returned", "raised"})
\* both replacements made hold a whole token, and the loop has returned after
\* two iterations
C13_Witness ==
    /\ pc = "returned"
    /\ Len(log) = 2
    /\ \A i \in 1..2 : RegexSearch(log[i].repl, 0).found
    /\ Len(Occurrences(text_placeholders, 0)) = 2
    /\ offset = Len(processed)

\* the owner of the nearest folder, from f up its parents, that has one; None
\* when the chain ends, leaves the table or comes back on itself first
RECURSIVE NearestOwner(_, _, _)
NearestOwner(table, f, seen) ==
    IF f \notin DOMAIN table \/ f \in seen THEN << >>
    ELSE IF table[f].ZOWNER # << >> THEN table[f].ZOWNER
    ELSE IF table[f].ZPARENT = << >> THEN << >>
    ELSE NearestOwner(table, table[f].ZPARENT, seen \cup {f})
\* the owner-less folders from f up come back on themselves
RECURSIVE OwnerlessCycle(_, _, _)
OwnerlessCycle(table, f, seen) ==
    IF f \in seen THEN TRUE
    ELSE IF f \notin DOMAIN table \/ table[f].ZOWNER # << >> \/ table[f].ZPARENT = << >>
    THEN FALSE
    ELSE OwnerlessCycle(table, table[f].ZPARENT, seen \cup {f})
OwnerOnReturn ==
    (own_pc = "returned") =>
        /\ final_owner = NearestOwner(folders, f_pk, {})
        /\ f_pk \in DOMAIN folder_owner_cache
        /\ folder_owner_cache[f_pk] = final_owner

\* C14: resolve_folder_owner never runs into unbounded recursion, whatever
\* the parent references, and when it returns it has returned the owner of the
\* nearest ancestor-or-self folder that has one (or None) and has recorded it
\* in the memo.
C14_OwnerResolved ==
    /\ own_pc # "RecursionError"
    /\ OwnerOnReturn

\* what does hold: every call that returns is right and memoized, and the
\* recursion limit is hit exactly on a cycle of owner-less folders
OwnerRightUnlessCycle ==
    /\ OwnerOnReturn
    /\ (own_pc = "RecursionError" => OwnerlessCycle(folders, f_pk, {}))
    /\ (own_pc = "returned" => ~OwnerlessCycle(folders, f_pk, {}))
====
